---- MODULE Spec2Model ----
(***************************************************************************)
(* Environment lifecycle manager of the Flagsmith infrastructure           *)
(* challenger: src/kubernetes/cli/main.py (InterviewSession, InterviewCLI) *)
(* and src/kubernetes/cli/challenges.py (ChallengeManager).                *)
(*                                                                         *)
(* The process is single threaded.  pc is the position of the main thread, *)
(* a label named after the function and the source line of the statement   *)
(* that runs next.  A call of a function that has several callers stores   *)
(* the label to return to (cleanupRet, fcRet, envRet, stopRet).  A signal  *)
(* handler runs on top of the interrupted code; _handle_exit always ends   *)
(* in sys.exit, so the interrupted code is never resumed and only what its *)
(* unwinding does (the finally block of check_health, the atexit callbacks *)
(* that are left) is kept.                                                 *)
(*                                                                         *)
(* An external command is one atomic step whose exit code is chosen by the *)
(* environment; every command is assumed to be spawned (subprocess.run     *)
(* itself raising OSError is not modelled).                                *)
(***************************************************************************)
EXTENDS Integers, Sequences, FiniteSets, TLC

VARIABLES
    pc,                 \* position of the main thread
    phase,              \* "main" | "atexit": interpreter phase
    atexitLeft,         \* atexit callbacks still to run, next one first
    inHandler,          \* _handle_exit is running
    signals,            \* signals delivered so far
    shutdown,           \* a signal was delivered or the interpreter is exiting
    cleanupRet,         \* label ChallengeManager._cleanup returns to
    fcRet,              \* label _force_cleanup_containers returns to
    envRet,             \* label start_candidate_environment returns to
    stopRet,            \* label stop_session returns to
    ids,                \* container_ids still to visit in the rm loop
    scenario,           \* the Challenge passed to start_session
    prov,               \* progress and result of setup_challenge
    session_active,     \* InterviewSession.session_active
    current_challenge,  \* InterviewSession.current_challenge
    start_time,         \* InterviewSession.start_time is not None
    cm_current_challenge, \* ChallengeManager.current_challenge
    containers,         \* sandbox containers that exist on the docker host
    composeUp,          \* the compose project's resources exist
    release,            \* the helm release is deployed
    descr,              \* the files of /tmp/tmate-info and who wrote them
    retry,              \* loop variable of _setup_candidate_connection
    attempt,            \* inner loop variable (polls of this attempt)
    brokeOn,            \* status on which the poll loop was left by break
    polls,              \* history: get_tmate_info calls of this start_session
    launches,           \* history: successful docker run commands of it
    info,               \* what get_tmate_info returned at the poll in progress
    tunnel,             \* the port-forward process of check_health
    result,             \* what check_health is returning or raising
    exiting,            \* SystemExit is propagating through the finally block
    unwindFinally,      \* the interrupted code is inside check_health's try
    probe,              \* history of the health check in progress
    \* history variables, read by the properties only
    launched,           \* this process has started a sandbox container
    shutdownReaps,      \* invocations of _cleanup since shutdown began
    shutdownSwept,      \* _force_cleanup_containers ran to its end since then
    cleanSinceLaunch,   \* sweeps run to their end since the last launch:
                        \* "no": none, "failed": each with a failed command,
                        \* "clean": one with every command succeeding
    \* locals of the reaper, dropped when it returns
    composeRc,          \* exit code of docker-compose down (result is unused)
    listed,             \* container_ids: the ids docker ps printed
    attempted,          \* ids the rm loop has run docker rm -f on
    rmFailed,           \* ids whose docker rm -f failed
    raised,             \* an exception left the function under test
    snap,               \* state kept by a driver between two calls
    dir,                \* the challenges directory: whether it exists, its *.yaml files
    yaml_files,         \* discover_challenges: the sorted files still to parse
    challenges          \* ChallengeManager.challenges, by file name

exitVars    == <<phase, atexitLeft, inHandler, signals, shutdown>>
retVars     == <<cleanupRet, fcRet, envRet, stopRet>>
scenVars    == <<scenario, prov>>
sessionVars == <<session_active, current_challenge, start_time, cm_current_challenge>>
hostVars    == <<containers, composeUp, release, descr>>
connVars    == <<retry, attempt, brokeOn, polls, launches, info>>
probeVars   == <<tunnel, result, exiting, unwindFinally, probe>>
countVars   == <<launched, shutdownReaps, shutdownSwept, cleanSinceLaunch>>
sweepHist   == <<composeRc, listed, attempted, rmFailed>>
catalogVars == <<dir, yaml_files, challenges>>
driverVars  == <<raised, snap, catalogVars>>

vars == <<pc, exitVars, retVars, ids, scenVars, sessionVars, hostVars,
          connVars, probeVars, countVars, sweepHist, driverVars>>

-----------------------------------------------------------------------------
(* Bounds of the model *)

\* signals (SIGINT or SIGTERM) delivered to one process
MaxSignals == 2
\* sandbox containers left behind by earlier runs
MaxOrphans == 1

-----------------------------------------------------------------------------
(* Values *)

NoChallenge == "None"

\* Sandbox containers whose name starts with k8s_challenger-candidate-env:
\* Own is the one this process names with its uuid suffix, 1..MaxOrphans are
\* left behind by earlier runs that crashed.  docker ps prints them in the
\* order of ContainerOrder.
Own            == 0
\* Peer is the sandbox of another instance of the tool that is running on
\* the same docker host: the same prefix, another uuid suffix.
Peer           == -1
Orphans        == 1..MaxOrphans
ContainerOrder == [i \in 1..(MaxOrphans + 2) |-> i - 2]
Containers     == {Own} \cup Orphans

\* exit codes of an external command: success, failure
ExitCodes == {0, 1}

Statuses    == {"none", "pending", "ready", "failed", "timeout"}
\* the ssh file: a non-empty endpoint, or no file (or an empty one)
SshContents == {"none", "url"}

\* /tmp/tmate-info: the contents of the status, ssh and web files, and the
\* launch of this start_session whose sandbox wrote the status (0: written
\* before the first launch, or no file).  AnyDescr stands for files whose
\* contents are not followed: every read of them may give any value.
AnyDescr == [status |-> "any", ssh |-> "any", web |-> "any", by |-> -1]
StatusRead(d) == IF d.status = "any" THEN Statuses ELSE {d.status}
SshRead(d)    == IF d.ssh = "any" THEN SshContents ELSE {d.ssh}
WebRead(d)    == IF d.web = "any" THEN SshContents ELSE {d.web}

\* elements of a sequence
Range(s) == {s[i] : i \in DOMAIN s}

\* tool-owned resources that exist
Resources == [containers |-> containers, compose |-> composeUp]
NoResources == [containers |-> {}, compose |-> FALSE]
Within(r, s) == r.containers \subseteq s.containers /\ (r.compose => s.compose)

\* what check_health returns (kind "return": healthy, message and code, 0
\* standing for None) or raises (kind "raise": the exception exc)
NoResult == [kind |-> "none", healthy |-> FALSE, text |-> "", arg |-> 0,
             code |-> 0, exc |-> ""]
Return(h, text, arg, code) ==
    [kind |-> "return", healthy |-> h, text |-> text, arg |-> arg, code |-> code,
     exc |-> ""]
Raise(e) == [NoResult EXCEPT !.kind = "raise", !.exc = e]

\* the locals is_ready, ssh_url and web_url of _setup_candidate_connection,
\* and whether this is the first attempt and every earlier read of the
\* status file in it gave "pending"; by: the launch whose sandbox wrote the
\* status read last
NoInfo == [ret |-> <<FALSE, "none", "none">>, pendingSoFar |-> FALSE, by |-> -1]

\* one health check: the line of input that began it, the calls of
\* check_health made for it, the exit code of kubectl get service (-1: not
\* run), whether port-forward was started and the request sent, and the
\* status code of the response (0: none)
NoProbe == [line |-> "none", calls |-> 0, svc |-> -1, popen |-> FALSE,
            get |-> FALSE, status |-> 0]

\* A Challenge: helmValues says whether helm_values is non-empty; an entry of
\* kubectl_patches is a mapping with resource, name and patch ("ok"), a
\* mapping that lacks one of them ("bad"), or no mapping at all ("scalar":
\* _parse_challenge_file checks only that the key is there).
PatchKinds == {"ok", "bad", "scalar"}

\* The scenarios of the catalog: the manual file may be missing.
Catalog ==
    [id : {"database-typo"}, manualOk : BOOLEAN, helmValues : {TRUE},
     patches : {<<"ok">>}]

NoScenario == [id |-> NoChallenge, manualOk |-> FALSE, helmValues |-> FALSE,
               patches |-> <<>>]

\* setup_challenge in progress: the values file written, the steps begun in
\* order (log), the steps with a command that exited non-zero or raised
\* (failed), the patch entries still to visit (todo), the positions of the
\* entries kubectl patch was run on (patched), whether the locals resource
\* and name of _apply_kubectl_patches are bound, and the value returned.
NoProv == [values |-> "none", log |-> <<>>, failed |-> {}, todo |-> <<>>,
           patched |-> <<>>, bound |-> FALSE, result |-> "none"]

-----------------------------------------------------------------------------
(* ChallengeManager._run_command *)

\* subprocess.run(..., check=check): CalledProcessError on a non-zero exit
\* code when check is set, the CompletedProcess otherwise.
RunCommand(rc, check) == IF check /\ rc # 0 THEN "raise" ELSE "ok"

\* the check argument of the three commands of the reaper
ComposeDownCheckStrict == TRUE
ComposeDownCheck       == FALSE
PsCheck                == FALSE
RmCheckStrict          == TRUE
RmCheck                == FALSE

\* Where an exception that leaves _cleanup is handled, by the label _cleanup
\* was to return to: the try of setup_challenge, the atexit machinery (which
\* goes on with the next callback), a driver, or the top-level handler of main.
ExcTarget(ret) ==
    CASE ret = "setup_196"   -> "setup_261"
      [] ret = "atexit_next" -> "atexit_next"
      [] ret \in {"drv_reap2", "drv_stop2", "drv_done"} -> ret
      [] OTHER               -> "main_509"

-----------------------------------------------------------------------------
(* ChallengeManager._cleanup and _force_cleanup_containers: the reaper *)

\* A call of _cleanup by the statement at the current position.
CallCleanup(ret) ==
    /\ pc' = "cleanup_112"
    /\ cleanupRet' = ret
    /\ shutdownReaps' = IF shutdown THEN shutdownReaps + 1 ELSE shutdownReaps

\* A call of _force_cleanup_containers by the statement at the current position.
CallForceCleanup(ret) ==
    /\ pc' = "force_120"
    /\ fcRet' = ret

\* _force_cleanup_containers returns: into _cleanup, which then returns
\* itself (challenges.py:114), or to the direct caller.  The locals go.
ForceCleanupReturns ==
    /\ pc' = IF fcRet = "cleanup_114" THEN cleanupRet ELSE fcRet
    /\ ids' = <<>>
    /\ composeRc' = 0
    /\ listed' = {}
    /\ attempted' = {}
    /\ rmFailed' = {}
    /\ shutdownSwept' = (shutdown \/ shutdownSwept)

\* cleanSinceLaunch after a sweep that ran to its end
SweepDone(clean) ==
    IF clean THEN "clean"
    ELSE IF cleanSinceLaunch = "no" THEN "failed" ELSE cleanSinceLaunch

\* challenges.py:112  docker-compose down --volumes --remove-orphans
Cleanup_ComposeDown ==
    /\ pc = "cleanup_112"
    /\ \E rc \in ExitCodes :
         /\ composeUp' = IF rc = 0 THEN FALSE ELSE composeUp
         /\ IF RunCommand(rc, ComposeDownCheck) = "raise"
            THEN /\ pc' = ExcTarget(cleanupRet)
                 /\ raised' = TRUE
                 /\ UNCHANGED <<fcRet, composeRc>>
            ELSE /\ CallForceCleanup("cleanup_114")
                 /\ composeRc' = rc
                 /\ UNCHANGED raised
    /\ UNCHANGED <<exitVars, cleanupRet, envRet, stopRet, ids, scenVars, sessionVars,
                   containers, release, descr, connVars, probeVars, countVars, listed,
                   attempted, rmFailed, snap, catalogVars>>

\* challenges.py:120-123  docker ps -a --filter name=k8s_challenger-candidate-env
ForceCleanup_Ps ==
    /\ pc = "force_120"
    /\ \E rc \in ExitCodes :
         IF RunCommand(rc, PsCheck) = "ok" /\ rc = 0 /\ containers # {}
         THEN /\ ids' = SelectSeq(ContainerOrder, LAMBDA c : c \in containers)
              /\ listed' = containers
              /\ pc' = "force_124"
              /\ UNCHANGED <<composeRc, attempted, rmFailed, cleanSinceLaunch,
                             shutdownSwept>>
         ELSE /\ ForceCleanupReturns
              /\ cleanSinceLaunch' = SweepDone(rc = 0)
    /\ UNCHANGED <<exitVars, retVars, scenVars, sessionVars, hostVars, connVars,
                   probeVars, launched, shutdownReaps, driverVars>>

\* challenges.py:124-126  one iteration of the loop: docker rm -f <id>
ForceCleanup_Rm ==
    /\ pc = "force_124"
    /\ ids # <<>>
    /\ \E rc \in ExitCodes :
         /\ containers' = IF rc = 0 THEN containers \ {Head(ids)} ELSE containers
         /\ IF RunCommand(rc, RmCheck) = "raise"
            THEN \* caught at challenges.py:127, the function returns
                 /\ ForceCleanupReturns
                 /\ cleanSinceLaunch' = SweepDone(FALSE)
            ELSE /\ ids' = Tail(ids)
                 /\ attempted' = attempted \cup {Head(ids)}
                 /\ rmFailed' = IF rc = 0 THEN rmFailed ELSE rmFailed \cup {Head(ids)}
                 /\ pc' = pc
                 /\ UNCHANGED <<composeRc, listed, cleanSinceLaunch, shutdownSwept>>
    /\ UNCHANGED <<exitVars, retVars, scenVars, sessionVars, composeUp, release, descr,
                   connVars, probeVars, launched, shutdownReaps, driverVars>>

\* challenges.py:124  the loop is over: the function returns
ForceCleanup_Return ==
    /\ pc = "force_124"
    /\ ids = <<>>
    /\ ForceCleanupReturns
    /\ cleanSinceLaunch' = SweepDone(rmFailed = {})
    /\ UNCHANGED <<exitVars, retVars, scenVars, sessionVars, hostVars, connVars,
                   probeVars, launched, shutdownReaps, driverVars>>

Reaper == Cleanup_ComposeDown \/ ForceCleanup_Ps \/ ForceCleanup_Rm \/ ForceCleanup_Return

-----------------------------------------------------------------------------
(* State of a process in which nothing has run yet *)

\* challenges.py:74  no catalog was discovered, no directory is looked at
NoDir == [exists |-> FALSE, files |-> <<>>]
NoCatalog == dir = NoDir /\ yaml_files = <<>> /\ challenges = <<>>

Quiet ==
    /\ phase = "main" /\ signals = 0
    /\ cleanupRet = "none" /\ fcRet = "none" /\ envRet = "none" /\ stopRet = "none"
    /\ ids = <<>>
    /\ prov = NoProv
    /\ release = FALSE
    /\ retry = 0 /\ attempt = 0 /\ brokeOn = "none" /\ polls = 0
    /\ info = NoInfo
    /\ tunnel = "none" /\ result = NoResult /\ exiting = FALSE /\ unwindFinally = FALSE
    /\ probe = NoProbe
    /\ launches = 0 /\ launched = FALSE
    /\ shutdownReaps = 0 /\ shutdownSwept = FALSE
    /\ cleanSinceLaunch = "no"
    /\ composeRc = 0
    /\ listed = {} /\ attempted = {} /\ rmFailed = {}
    /\ raised = FALSE /\ snap = NoResources

\* InterviewSession.__init__, main.py:75-79
SessionConstructed ==
    /\ session_active = FALSE
    /\ current_challenge = NoChallenge
    /\ start_time = FALSE
    /\ cm_current_challenge = NoChallenge

-----------------------------------------------------------------------------
(* InterviewCLI.run, _run_challenge and InterviewSession.start_session *)

\* The callbacks registered with atexit, in the order the interpreter runs
\* them (last registered first): InterviewCLI._cleanup (main.py:286), then
\* ChallengeManager._cleanup (challenges.py:83).
AtExitNone      == <<>>
AtExitCallbacks == <<"cli_cleanup", "cm_cleanup">>

\* The frames of the running code are dropped with their locals: the code
\* is left for good, by a return of main, by an exception that reaches
\* main, or by a signal whose handler ends in sys.exit.
DropLocals ==
    /\ cleanupRet' = "none" /\ fcRet' = "none" /\ envRet' = "none" /\ stopRet' = "none"
    /\ ids' = <<>>
    /\ scenario' = NoScenario
    /\ prov' = NoProv
    /\ retry' = 0 /\ attempt' = 0 /\ brokeOn' = "none" /\ polls' = 0 /\ launches' = 0
    /\ info' = NoInfo
    /\ result' = NoResult
    /\ probe' = NoProbe
    /\ composeRc' = 0 /\ listed' = {} /\ attempted' = {} /\ rmFailed' = {}

\* what DropLocals and BeginExit leave alone
keptVars == <<atexitLeft, sessionVars, hostVars, tunnel, countVars, driverVars>>

\* The interpreter starts to exit: the callbacks of atexit run next.
BeginExit ==
    /\ phase' = "atexit"
    /\ shutdown' = TRUE
    /\ pc' = "atexit_next"
    /\ DropLocals

\* main.py:304-319  run: the operator picks a scenario, or none (Ctrl-D, an
\* empty catalog), and run returns.
Run_SelectChallenge ==
    /\ pc = "run_316"
    /\ \/ /\ \E c \in Catalog : scenario' = c
          /\ pc' = "start_83"
          /\ UNCHANGED <<phase, shutdown>>
          /\ UNCHANGED <<retVars, ids, prov, connVars, result, probe, sweepHist>>
       \/ BeginExit
    /\ UNCHANGED <<keptVars, inHandler, signals, exiting, unwindFinally>>

\* main.py:83  self.current_challenge = challenge
StartSession_SetChallenge ==
    /\ pc = "start_83"
    /\ current_challenge' = scenario.id
    /\ pc' = "start_84"
    /\ UNCHANGED <<exitVars, retVars, ids, scenVars, session_active, start_time,
                   cm_current_challenge, hostVars, connVars, probeVars,
                   countVars, sweepHist, driverVars>>

\* a start_session that does not set start_time
StartSession_NoStartTime ==
    /\ pc = "start_84"
    /\ pc' = "start_85"
    /\ UNCHANGED <<exitVars, retVars, ids, scenVars, sessionVars, hostVars, connVars,
                   probeVars, countVars, sweepHist, driverVars>>

\* main.py:84  self.start_time = datetime.now()
StartSession_SetStartTime ==
    /\ pc = "start_84"
    /\ start_time' = TRUE
    /\ pc' = "start_85"
    /\ UNCHANGED <<exitVars, retVars, ids, scenVars, session_active, current_challenge,
                   cm_current_challenge, hostVars, connVars, probeVars,
                   countVars, sweepHist, driverVars>>

\* main.py:85  self.session_active = True
StartSession_SetActive ==
    /\ pc = "start_85"
    /\ session_active' = TRUE
    /\ pc' = "start_120"
    /\ UNCHANGED <<exitVars, retVars, ids, scenVars, current_challenge, start_time,
                   cm_current_challenge, hostVars, connVars, probeVars,
                   countVars, sweepHist, driverVars>>

\* main.py:120  _ = challenge.manual: read_text raises when the file is
\* missing (challenges.py:62); the exception reaches main's handler.
StartSession_Manual ==
    /\ pc = "start_120"
    /\ pc' = IF scenario.manualOk THEN "setup_186" ELSE "main_509"
    /\ UNCHANGED <<exitVars, retVars, ids, scenVars, sessionVars, hostVars, connVars,
                   probeVars, countVars, sweepHist, driverVars>>

-----------------------------------------------------------------------------
(* ChallengeManager.setup_challenge and _apply_kubectl_patches *)

\* the check argument of kubectl create namespace (196) and of helm
\* upgrade --install (253)
NamespaceCheck == FALSE
HelmCheckLoose == FALSE
HelmCheck      == TRUE

\* challenges.py:208-214  the values file: the dump of helm_values when it
\* is not empty, a copy of the chart's values.yaml otherwise
ValuesFileCustom(helm_values) == "custom"
ValuesFile(helm_values) == IF helm_values THEN "custom" ELSE "default"

\* prov after a step: what it adds to the log and to the failed steps
Logged(steps, bad) ==
    [prov EXCEPT !.log = @ \o steps, !.failed = @ \cup bad]

\* challenges.py:186-190  current_challenge is set and the reaper runs
SetupChallenge_Cleanup ==
    /\ pc = "setup_186"
    /\ cm_current_challenge' = scenario.id
    /\ prov' = [NoProv EXCEPT !.log = <<"reap">>]
    /\ CallCleanup("setup_196")
    /\ UNCHANGED <<exitVars, fcRet, envRet, stopRet, ids, scenario, session_active,
                   current_challenge, start_time, hostVars, connVars, probeVars,
                   launched, shutdownSwept, cleanSinceLaunch, sweepHist, driverVars>>

\* challenges.py:193-203  the settle wait, kubectl create namespace
\* (check=False), then git clone (check=True) when /tmp/flagsmith-charts
\* does not exist.
SetupChallenge_Namespace ==
    /\ pc = "setup_196"
    /\ \E nsrc \in ExitCodes, cloned \in BOOLEAN, rc \in ExitCodes :
         LET nsBad == IF nsrc # 0 THEN {"namespace"} ELSE {}
         IN  IF RunCommand(nsrc, NamespaceCheck) = "raise"
             THEN /\ prov' = Logged(<<"settle", "namespace">>, nsBad)
                  /\ pc' = "setup_261"
             ELSE IF cloned
             THEN /\ prov' = Logged(<<"settle", "namespace">>, nsBad)
                  /\ pc' = "setup_208"
             ELSE IF RunCommand(rc, TRUE) = "ok"
             THEN /\ prov' = Logged(<<"settle", "namespace", "clone">>, nsBad)
                  /\ pc' = "setup_208"
             ELSE /\ prov' = Logged(<<"settle", "namespace", "clone">>,
                                    nsBad \cup {"clone"})
                  /\ pc' = "setup_261"
    /\ UNCHANGED <<exitVars, retVars, ids, scenario, sessionVars, hostVars, connVars,
                   probeVars, countVars, sweepHist, driverVars>>

\* challenges.py:206-214  the values file: the scenario's helm_values when
\* not empty, a copy of the chart's values.yaml (cp, check=True) otherwise.
SetupChallenge_Values ==
    /\ pc = "setup_208"
    /\ \E rc \in ExitCodes :
         IF ValuesFile(scenario.helmValues) = "custom" \/ RunCommand(rc, TRUE) = "ok"
         THEN /\ prov' = [Logged(<<"values">>, {}) EXCEPT
                             !.values = ValuesFile(scenario.helmValues)]
              /\ pc' = "setup_217"
         ELSE /\ prov' = Logged(<<"values">>, {"values"})
              /\ pc' = "setup_261"
    /\ UNCHANGED <<exitVars, retVars, ids, scenario, sessionVars, hostVars, connVars,
                   probeVars, countVars, sweepHist, driverVars>>

\* challenges.py:217-253  helm repo add (four), helm repo update and helm
\* dependency build (all check=False), then helm upgrade --install
\* (check=True), without --wait.
SetupChallenge_Helm ==
    /\ pc = "setup_217"
    /\ \E reporc \in ExitCodes, rc \in ExitCodes :
         LET bad == (IF reporc # 0 THEN {"repos"} ELSE {})
                    \cup (IF rc # 0 THEN {"install"} ELSE {})
         IN  /\ release' = IF rc = 0 THEN TRUE ELSE release
             /\ IF RunCommand(rc, HelmCheck) = "ok"
                THEN /\ prov' = [Logged(<<"repos", "install">>, bad) EXCEPT
                                    !.todo = scenario.patches]
                     /\ pc' = "patch_266"
                ELSE /\ prov' = Logged(<<"repos", "install">>, bad)
                     /\ pc' = "setup_261"
    /\ UNCHANGED <<exitVars, retVars, ids, scenario, sessionVars, containers, composeUp, descr,
                   connVars, probeVars, countVars, sweepHist, driverVars>>

\* position in kubectl_patches of the entry the loop is at
PatchIndex == Len(scenario.patches) - Len(prov.todo) + 1

\* challenges.py:266-290  one iteration of the patch loop.  An entry lacking
\* a field is skipped (274); kubectl patch (check=True) is run on a well
\* formed one and its failure is caught and printed (287-290).  On an entry
\* that is no mapping patch.get raises before resource is assigned: the
\* handler's print reads resource and name, which are bound if an earlier
\* entry was a mapping, and raises UnboundLocalError out of the function
\* otherwise.
ApplyPatches_Step ==
    /\ pc = "patch_266"
    /\ prov.todo # <<>>
    /\ \E rc \in ExitCodes :
         CASE Head(prov.todo) = "ok" ->
                /\ prov' = [prov EXCEPT !.todo = Tail(@), !.bound = TRUE,
                               !.patched = Append(@, PatchIndex),
                               !.failed = IF rc # 0 THEN @ \cup {"patch"} ELSE @]
                /\ pc' = pc
           [] Head(prov.todo) = "bad" ->
                /\ prov' = [prov EXCEPT !.todo = Tail(@), !.bound = TRUE]
                /\ pc' = pc
           [] Head(prov.todo) = "scalar" ->
                IF prov.bound
                THEN /\ prov' = [prov EXCEPT !.todo = Tail(@),
                                             !.failed = @ \cup {"patch"}]
                     /\ pc' = pc
                ELSE /\ prov' = [prov EXCEPT !.failed = @ \cup {"patch"}]
                     /\ pc' = "setup_261"
    /\ UNCHANGED <<exitVars, retVars, ids, scenario, sessionVars, hostVars, connVars,
                   probeVars, countVars, sweepHist, driverVars>>

\* challenges.py:256-259  the patches are done (or there is none): return
\* True to start_session (main.py:134)
SetupChallenge_ReturnTrue ==
    /\ pc = "patch_266"
    /\ prov.todo = <<>>
    /\ prov' = [prov EXCEPT !.result = "true"]
    /\ pc' = "start_138"
    /\ UNCHANGED <<exitVars, retVars, ids, scenario, sessionVars, hostVars, connVars,
                   probeVars, countVars, sweepHist, driverVars>>

\* challenges.py:261-262  except Exception: return False
SetupChallenge_ReturnFalse ==
    /\ pc = "setup_261"
    /\ prov' = [prov EXCEPT !.result = "false", !.todo = <<>>]
    /\ pc' = "start_138"
    /\ UNCHANGED <<exitVars, retVars, ids, scenario, sessionVars, hostVars, connVars,
                   probeVars, countVars, sweepHist, driverVars>>

-----------------------------------------------------------------------------
(* ChallengeManager.start_candidate_environment *)

\* a launch that goes to docker run without the reaper
CallStartEnvironmentNoReap(ret) ==
    /\ envRet' = ret
    /\ pc' = "env_461"
    /\ UNCHANGED <<cleanupRet, shutdownReaps>>

\* A call of start_candidate_environment: challenges.py:457-458, the reaper
\* and the settle wait.
CallStartEnvironment(ret) ==
    /\ envRet' = ret
    /\ CallCleanup("env_461")

\* main.py:134-138  the value of setup_challenge is dropped, and with it
\* what setup_challenge did; the first launch of the sandbox
StartSession_StartEnvironment ==
    /\ pc = "start_138"
    /\ prov' = [NoProv EXCEPT !.result = prov.result]
    /\ CallStartEnvironment("connect_154")
    /\ UNCHANGED <<exitVars, fcRet, stopRet, ids, scenario, sessionVars, hostVars,
                   connVars, probeVars, launched, shutdownSwept, cleanSinceLaunch,
                   sweepHist, driverVars>>

\* challenges.py:461-476  docker inspect (check=False) picks the network,
\* docker run -d --name <own name> --rm (check=True) starts the sandbox; it
\* fails when a container of that name exists, and may fail otherwise.
StartEnvironment_DockerRun ==
    /\ pc = "env_461"
    /\ \E rc \in ExitCodes :
         /\ Own \in containers => rc # 0
         /\ IF RunCommand(rc, TRUE) = "ok"
            THEN /\ containers' = containers \cup {Own}
                 /\ launches' = launches + 1
                 /\ launched' = TRUE
                 /\ cleanSinceLaunch' = "no"
                 /\ pc' = envRet
            ELSE /\ pc' = "main_509"
                 /\ UNCHANGED <<containers, launches, launched, cleanSinceLaunch>>
    /\ UNCHANGED <<exitVars, retVars, ids, scenVars, sessionVars, composeUp, release, descr,
                   retry, attempt, brokeOn, polls, info, probeVars, shutdownReaps,
                   shutdownSwept, sweepHist, driverVars>>

-----------------------------------------------------------------------------
(* InterviewSession._setup_candidate_connection *)

\* main.py:152
max_retries == 2
\* main.py:162  range(10)
PollBudget == 10

\* main.py:154  range(max_retries + 1)
RetryRangeWide == max_retries + 2
RetryRange     == max_retries + 1

\* challenges.py:427-452  get_tmate_info on the descriptor files as they
\* are when read: <<is_ready, ssh_url, web_url>>; ssh_url and web_url are the
\* stripped contents of the ssh and web files, None without the file.
GetTmateInfo(st, ssh, web) ==
    IF st # "ready" THEN <<FALSE, "none", "none">> ELSE <<TRUE, ssh, web>>

\* is_ready alone
ReadyWithoutEndpoint(t) == t[1]
\* main.py:165  is_ready and ssh_url: None and "" are false
ReadyWithEndpoint(t) == t[1] /\ t[2] = "url"

\* main.py:200-208  _check_session_failure on the status file as it is
\* when read
CheckSessionFailureLoose(st) == st \in {"failed", "timeout", "pending"}
CheckSessionFailure(st) == st \in {"failed", "timeout"}

\* main.py:154-160  head of the retry loop: return False when the range is
\* exhausted (198), relaunch the sandbox on a retry (157), else go and poll.
Connect_RetryHead ==
    /\ pc = "connect_154"
    /\ IF retry >= RetryRange
       THEN /\ pc' = "start_141"
            /\ UNCHANGED <<cleanupRet, envRet, shutdownReaps, attempt, info>>
       ELSE IF retry > 0
       THEN /\ CallStartEnvironment("connect_158")
            /\ UNCHANGED <<attempt, info>>
       ELSE /\ pc' = "connect_163"
            /\ attempt' = 0
            /\ info' = [NoInfo EXCEPT !.pendingSoFar = TRUE]
            /\ UNCHANGED <<cleanupRet, envRet, shutdownReaps>>
    /\ UNCHANGED <<exitVars, fcRet, stopRet, ids, scenVars, sessionVars, hostVars,
                   retry, brokeOn, polls, launches, probeVars, launched,
                   shutdownSwept, cleanSinceLaunch, sweepHist, driverVars>>

\* main.py:158-160  time.sleep(3) after the relaunch, then the poll loop
Connect_AfterRelaunch ==
    /\ pc = "connect_158"
    /\ attempt' = 0
    /\ pc' = "connect_163"
    /\ UNCHANGED <<exitVars, retVars, ids, scenVars, sessionVars, hostVars, retry,
                   brokeOn, polls, launches, info, probeVars, countVars, sweepHist,
                   driverVars>>

\* main.py:163-182  one poll: get_tmate_info reads the descriptor files,
\* which hold whatever a sandbox (of this attempt, of an earlier one, of an
\* earlier run) wrote last; the panel and return True follow when it is
\* ready with an ssh endpoint.
Connect_Poll ==
    /\ pc = "connect_163"
    /\ polls' = polls + 1
    /\ \E st \in StatusRead(descr), ssh \in SshRead(descr), web \in WebRead(descr) :
         LET t == GetTmateInfo(st, ssh, web) IN
         IF ReadyWithEndpoint(t)
         THEN /\ info' = [info EXCEPT !.ret = t, !.by = descr.by]
              /\ pc' = "connect_182"
         ELSE /\ info' = [ret |-> t, by |-> descr.by,
                          pendingSoFar |-> info.pendingSoFar /\ st = "pending"]
              /\ pc' = "connect_185"
    /\ UNCHANGED <<exitVars, retVars, ids, scenVars, sessionVars, hostVars, retry,
                   attempt, brokeOn, launches, probeVars, countVars, sweepHist,
                   driverVars>>

\* main.py:166-182, 140-146  the panel shows ssh_url, and web_url when there
\* is one; _setup_candidate_connection returns True and start_session goes
\* on to monitoring
Connect_ReturnTrue ==
    /\ pc = "connect_182"
    /\ info' = NoInfo
    /\ pc' = "monitor_215"
    /\ UNCHANGED <<exitVars, retVars, ids, scenVars, sessionVars, hostVars, retry,
                   attempt, brokeOn, polls, launches, probeVars, countVars, sweepHist,
                   driverVars>>

\* main.py:185-186  if self._check_session_failure(): break
Connect_CheckFailure ==
    /\ pc = "connect_185"
    /\ \E st \in StatusRead(descr) :
         /\ info' = [info EXCEPT !.pendingSoFar = @ /\ st = "pending", !.by = descr.by]
         /\ IF CheckSessionFailure(st)
            THEN /\ brokeOn' = st
                 /\ pc' = "connect_193"
            ELSE /\ pc' = "connect_191"
                 /\ UNCHANGED brokeOn
    /\ UNCHANGED <<exitVars, retVars, ids, scenVars, sessionVars, hostVars, retry,
                   attempt, polls, launches, probeVars, countVars, sweepHist,
                   driverVars>>

\* main.py:191, 162  time.sleep(1) and the next value of range(10)
Connect_Sleep ==
    /\ pc = "connect_191"
    /\ attempt' = attempt + 1
    /\ pc' = IF attempt + 1 < PollBudget THEN "connect_163" ELSE "connect_193"
    /\ UNCHANGED <<exitVars, retVars, ids, scenVars, sessionVars, hostVars, retry,
                   brokeOn, polls, launches, info, probeVars, countVars, sweepHist,
                   driverVars>>

\* main.py:193-196, 154  the attempt is over: the next value of the range
Connect_AttemptEnd ==
    /\ pc = "connect_193"
    /\ retry' = retry + 1
    /\ attempt' = 0
    /\ brokeOn' = "none"
    /\ info' = NoInfo
    /\ pc' = "connect_154"
    /\ UNCHANGED <<exitVars, retVars, ids, scenVars, sessionVars, hostVars, polls,
                   launches, probeVars, countVars, sweepHist, driverVars>>

\* main.py:140-142  start_session returns False, and _run_challenge
\* (main.py:439) takes the value
StartSession_ConnectFailed ==
    /\ pc = "start_141"
    /\ pc' = "run_439"
    /\ UNCHANGED <<exitVars, retVars, ids, scenVars, sessionVars, hostVars, connVars,
                   probeVars, countVars, sweepHist, driverVars>>

\* main.py:439, 319, 505  start_session returned False: _run_challenge, run
\* and main return, the interpreter exits
RunChallenge_Return ==
    /\ pc = "run_439"
    /\ BeginExit
    /\ UNCHANGED <<keptVars, inHandler, signals, exiting, unwindFinally>>

-----------------------------------------------------------------------------
(* InterviewSession._start_health_monitoring and _check_health *)

\* main.py:216  lines of input: empty, blank, other
Lines == {"", " ", "text"}

\* a line taken as it is
StripNothing(line) == line
\* main.py:217  str.strip() of a line of input
Strip(line) == IF line = " " THEN "" ELSE line

\* main.py:215-221  while self.session_active: input(); a line that is
\* empty once stripped is a trigger, other input is answered by a hint, end
\* of input raises EOFError, which reaches main's handler.  With the flag
\* false the loop, start_session (True) and the loop of _run_challenge
\* (main.py:441) end, and main returns.
Monitor_Input ==
    /\ pc = "monitor_215"
    /\ IF session_active
       THEN /\ \/ \E line \in Lines :
                    /\ pc' = IF Strip(line) = "" THEN "health_227" ELSE pc
                    /\ probe' = [NoProbe EXCEPT !.line = line]
               \/ /\ pc' = "main_509"
                  /\ UNCHANGED probe
            /\ UNCHANGED <<phase, shutdown, retVars, ids, scenVars, connVars, result,
                           sweepHist>>
       ELSE BeginExit
    /\ UNCHANGED <<keptVars, inHandler, signals, exiting, unwindFinally>>

\* main.py:227, 248  _format_elapsed_time: assert self.start_time is not None
CheckHealth_Elapsed ==
    /\ pc = "health_227"
    /\ pc' = IF start_time THEN "health_308" ELSE "main_509"
    /\ UNCHANGED <<exitVars, retVars, ids, scenVars, sessionVars, hostVars, connVars,
                   probeVars, countVars, sweepHist, driverVars>>

-----------------------------------------------------------------------------
(* ChallengeManager.check_health *)

\* status codes the health endpoint may answer with, and the exceptions
\* requests.get may raise
HttpCodes  == {200, 404, 500, 503, 302}
HttpErrors == {"ConnectTimeout", "ConnectionError", "Timeout", "RequestException"}

\* a classification that takes every code below 400 for healthy
ClassifyRedirect(code) ==
    IF code < 400 THEN Return(TRUE, "Healthy", 0, code)
    ELSE Return(FALSE, "HTTP", code, code)

\* challenges.py:339-350
Classify(code) ==
    CASE code = 200 -> Return(TRUE, "Healthy", 0, code)
      [] code = 404 -> Return(FALSE, "Endpoint not found", 0, code)
      [] code = 500 -> Return(FALSE, "Server error", 0, code)
      [] code = 503 -> Return(FALSE, "Service unavailable", 0, code)
      [] OTHER      -> Return(FALSE, "HTTP", code, code)

\* challenges.py:363-372  the except clauses, first match
ExceptClause(e) ==
    CASE e = "ConnectTimeout"  -> Return(FALSE, "Connection timeout", 0, 0)
      [] e = "ConnectionError" -> Return(FALSE, "Cannot connect to service", 0, 0)
      [] e = "Timeout"         -> Return(FALSE, "Request timeout", 0, 0)
      [] e = "RequestException" -> Return(FALSE, "Network error", 0, 0)
      [] OTHER                 -> Return(FALSE, "Health check failed", 0, 0)

\* a lookup whose exit code is not looked at
CheckHealth_ServiceIgnored ==
    /\ pc = "health_308"
    /\ \E rc \in ExitCodes : probe' = [probe EXCEPT !.calls = @ + 1, !.svc = rc]
    /\ pc' = "health_321"
    /\ UNCHANGED <<exitVars, retVars, ids, scenVars, sessionVars, hostVars, connVars,
                   tunnel, result, exiting, unwindFinally, countVars, sweepHist,
                   driverVars>>

\* challenges.py:308-314  kubectl get service (check=False)
CheckHealth_Service ==
    /\ pc = "health_308"
    /\ \E rc \in ExitCodes :
         /\ probe' = [probe EXCEPT !.calls = @ + 1, !.svc = rc]
         /\ IF rc # 0
            THEN /\ result' = Return(FALSE, "Service not deployed", 0, 0)
                 /\ pc' = "health_return"
            ELSE /\ pc' = "health_321"
                 /\ UNCHANGED result
    /\ UNCHANGED <<exitVars, retVars, ids, scenVars, sessionVars, hostVars, connVars,
                   tunnel, exiting, unwindFinally, countVars, sweepHist, driverVars>>

\* challenges.py:321-329  Popen of kubectl port-forward, then time.sleep(2)
CheckHealth_Popen ==
    /\ pc = "health_321"
    /\ tunnel' = "running"
    /\ probe' = [probe EXCEPT !.popen = TRUE]
    /\ pc' = "health_332"
    /\ UNCHANGED <<exitVars, retVars, ids, scenVars, sessionVars, hostVars, connVars,
                   result, exiting, unwindFinally, countVars, sweepHist, driverVars>>

\* kubectl port-forward ends by itself (the pod is gone, the port is taken)
Tunnel_Exits ==
    /\ tunnel = "running"
    /\ tunnel' = "exited"
    /\ UNCHANGED <<pc, exitVars, retVars, ids, scenVars, sessionVars, hostVars,
                   connVars, result, exiting, unwindFinally, probe, countVars,
                   sweepHist, driverVars>>

\* challenges.py:332-333  if port_forward_proc.poll() is not None
CheckHealth_Poll ==
    /\ pc = "health_332"
    /\ IF tunnel = "exited"
       THEN /\ result' = Return(FALSE, "Port-forward failed", 0, 0)
            /\ pc' = "health_355"
       ELSE /\ pc' = "health_337"
            /\ UNCHANGED result
    /\ UNCHANGED <<exitVars, retVars, ids, scenVars, sessionVars, hostVars, connVars,
                   tunnel, exiting, unwindFinally, probe, countVars, sweepHist, driverVars>>

\* challenges.py:337-350  requests.get(health_url, timeout=5) and the
\* classification of the answer; without the tunnel only an error comes
\* back.  Return and raise both pass through the finally block (352).
CheckHealth_GetNoFinally ==
    /\ pc = "health_337"
    /\ \/ /\ tunnel = "running"
          /\ \E code \in HttpCodes :
               /\ result' = Classify(code)
               /\ probe' = [probe EXCEPT !.get = TRUE, !.status = code]
          /\ pc' = "health_355"
       \/ /\ \E e \in HttpErrors : result' = Raise(e)
          /\ probe' = [probe EXCEPT !.get = TRUE]
          /\ pc' = "health_362"
    /\ UNCHANGED <<exitVars, retVars, ids, scenVars, sessionVars, hostVars, connVars,
                   tunnel, exiting, unwindFinally, countVars, sweepHist, driverVars>>

CheckHealth_Get ==
    /\ pc = "health_337"
    /\ \/ /\ tunnel = "running"
          /\ \E code \in HttpCodes :
               /\ result' = Classify(code)
               /\ probe' = [probe EXCEPT !.get = TRUE, !.status = code]
       \/ /\ \E e \in HttpErrors : result' = Raise(e)
          /\ probe' = [probe EXCEPT !.get = TRUE]
    /\ pc' = "health_355"
    /\ UNCHANGED <<exitVars, retVars, ids, scenVars, sessionVars, hostVars, connVars,
                   tunnel, exiting, unwindFinally, countVars, sweepHist, driverVars>>

\* challenges.py:355  finally: port_forward_proc.terminate()
CheckHealth_Terminate ==
    /\ pc = "health_355"
    /\ tunnel' = IF tunnel = "running" THEN "terminating" ELSE tunnel
    /\ pc' = "health_356"
    /\ UNCHANGED <<exitVars, retVars, ids, scenVars, sessionVars, hostVars, connVars,
                   result, exiting, unwindFinally, probe, countVars, sweepHist, driverVars>>

\* challenges.py:356-357  port_forward_proc.wait(timeout=5): the process has
\* ended or ends in time, or TimeoutExpired is raised and caught
CheckHealth_Wait ==
    /\ pc = "health_356"
    /\ \/ /\ tunnel \in {"exited", "dead"}
          /\ pc' = "health_362"
          /\ UNCHANGED tunnel
       \/ /\ tunnel = "terminating"
          /\ tunnel' = "dead"
          /\ pc' = "health_362"
       \/ /\ tunnel \in {"running", "terminating"}
          /\ pc' = "health_359"
          /\ UNCHANGED tunnel
    /\ UNCHANGED <<exitVars, retVars, ids, scenVars, sessionVars, hostVars, connVars,
                   result, exiting, unwindFinally, probe, countVars, sweepHist, driverVars>>

\* challenges.py:359  port_forward_proc.kill()
CheckHealth_Kill ==
    /\ pc = "health_359"
    /\ tunnel' = "dead"
    /\ pc' = "health_362"
    /\ UNCHANGED <<exitVars, retVars, ids, scenVars, sessionVars, hostVars, connVars,
                   result, exiting, unwindFinally, probe, countVars, sweepHist, driverVars>>

\* challenges.py:352-372  the finally block is over: the value is returned,
\* an exception of the request is turned into a value by the except
\* clauses, and SystemExit goes on to end the process
CheckHealth_FinallyEnd ==
    /\ pc = "health_362"
    /\ IF exiting
       THEN /\ BeginExit
            /\ exiting' = FALSE
       ELSE /\ result' = IF result.kind = "raise"
                         THEN ExceptClause(result.exc) ELSE result
            /\ pc' = "health_return"
            /\ UNCHANGED <<phase, shutdown, exiting, retVars, ids, scenVars, connVars,
                           probe, sweepHist>>
    /\ UNCHANGED <<keptVars, inHandler, signals, unwindFinally>>

\* a report that ends the session on a healthy result
CheckHealth_ReportStops ==
    /\ pc = "health_return"
    /\ result' = NoResult
    /\ tunnel' = "none"
    /\ probe' = NoProbe
    /\ session_active' = ~result.healthy
    /\ pc' = "monitor_215"
    /\ UNCHANGED <<exitVars, retVars, ids, scenVars, current_challenge, start_time,
                   cm_current_challenge, hostVars, connVars, exiting, unwindFinally,
                   countVars, sweepHist, driverVars>>

\* main.py:228-244  _check_health prints the result; the Popen object is
\* dropped with the frame of check_health
CheckHealth_Report ==
    /\ pc = "health_return"
    /\ result' = NoResult
    /\ tunnel' = "none"
    /\ probe' = NoProbe
    /\ pc' = "monitor_215"
    /\ UNCHANGED <<exitVars, retVars, ids, scenVars, sessionVars, hostVars, connVars,
                   exiting, unwindFinally, countVars, sweepHist, driverVars>>

\* positions inside the try of challenges.py:327 whose finally has not begun
TryBody == {"health_332", "health_337"}

-----------------------------------------------------------------------------
(* main: the top-level handler, and the exit of the interpreter *)

\* main.py:509-511, 26-42  except Exception: handle_error prints the error
\* and waits for Enter, then sys.exit(1)
Main_HandleError ==
    /\ pc = "main_509"
    /\ BeginExit
    /\ UNCHANGED <<keptVars, inHandler, signals, exiting, unwindFinally>>

\* main.py:297-302  the atexit callback InterviewCLI._cleanup
AtExit_CliCleanup ==
    /\ pc = "atexit_next"
    /\ atexitLeft # <<>> /\ Head(atexitLeft) = "cli_cleanup"
    /\ atexitLeft' = Tail(atexitLeft)
    /\ CallForceCleanup("atexit_next")
    /\ UNCHANGED <<phase, inHandler, signals, shutdown, cleanupRet, envRet, stopRet,
                   ids, scenVars, sessionVars, hostVars, connVars, probeVars,
                   countVars, sweepHist, driverVars>>

\* challenges.py:83, 110  the atexit callback ChallengeManager._cleanup
AtExit_ManagerCleanup ==
    /\ pc = "atexit_next"
    /\ atexitLeft # <<>> /\ Head(atexitLeft) = "cm_cleanup"
    /\ atexitLeft' = Tail(atexitLeft)
    /\ CallCleanup("atexit_next")
    /\ UNCHANGED <<phase, inHandler, signals, shutdown, fcRet, envRet, stopRet, ids,
                   scenVars, sessionVars, hostVars, connVars, probeVars, launched,
                   shutdownSwept, cleanSinceLaunch, sweepHist, driverVars>>

\* every callback has run: the process is gone
AtExit_Done ==
    /\ pc = "atexit_next"
    /\ atexitLeft = <<>>
    /\ pc' = "exited"
    /\ UNCHANGED <<exitVars, retVars, ids, scenVars, sessionVars, hostVars, connVars,
                   probeVars, countVars, sweepHist, driverVars>>

-----------------------------------------------------------------------------
(* InterviewCLI._handle_exit, the handler of SIGINT and SIGTERM *)

\* A signal is delivered and _handle_exit (installed at main.py:284-285,
\* over the handler of challenges.py:84-85) begins on top of the code that
\* was running.  That code is not resumed: what is kept of it is whether
\* the finally block of check_health is still to run when SystemExit
\* unwinds it.  A handler that is itself interrupted keeps what it kept.
Signal ==
    /\ pc # "exited"
    /\ signals < MaxSignals
    /\ signals' = signals + 1
    /\ shutdown' = TRUE
    /\ inHandler' = TRUE
    /\ unwindFinally' = IF inHandler THEN unwindFinally ELSE pc \in TryBody
    /\ exiting' = FALSE
    /\ pc' = "exit_290"
    /\ DropLocals
    /\ UNCHANGED <<keptVars, phase>>

\* main.py:290-291  if self.session.session_active: self.session.stop_session()
HandleExit_Check ==
    /\ pc = "exit_290"
    /\ IF session_active
       THEN /\ pc' = "stop_259"
            /\ stopRet' = "exit_294"
       ELSE /\ pc' = "exit_294"
            /\ UNCHANGED stopRet
    /\ UNCHANGED <<exitVars, cleanupRet, fcRet, envRet, ids, scenVars, sessionVars,
                   hostVars, connVars, probeVars, countVars, sweepHist,
                   driverVars>>

\* main.py:294, 297-302  self._cleanup(): the sweep, inside try/except
HandleExit_Cleanup ==
    /\ pc = "exit_294"
    /\ CallForceCleanup("exit_295")
    /\ UNCHANGED <<exitVars, cleanupRet, envRet, stopRet, ids, scenVars, sessionVars,
                   hostVars, connVars, probeVars, countVars, sweepHist,
                   driverVars>>

\* main.py:295  sys.exit(0): SystemExit unwinds the interrupted code.  It
\* runs the finally block of check_health when it passes through it; in an
\* atexit callback it ends that callback and the next one runs.
HandleExit_SysExit ==
    /\ pc = "exit_295"
    /\ inHandler' = FALSE
    /\ unwindFinally' = FALSE
    /\ IF phase = "atexit"
       THEN /\ pc' = "atexit_next"
            /\ DropLocals
            /\ UNCHANGED <<phase, shutdown, exiting>>
       ELSE IF unwindFinally
       THEN /\ pc' = "health_355"
            /\ exiting' = TRUE
            /\ DropLocals
            /\ UNCHANGED <<phase, shutdown>>
       ELSE /\ BeginExit
            /\ UNCHANGED exiting
    /\ UNCHANGED <<keptVars, signals>>

-----------------------------------------------------------------------------
(* InterviewSession.stop_session and ChallengeManager.cleanup *)

\* main.py:259-260  if not self.session_active: return
StopSession_NoGuard ==
    /\ pc = "stop_259"
    /\ pc' = "stop_263"
    /\ UNCHANGED <<exitVars, retVars, ids, scenVars, sessionVars, hostVars, connVars,
                   probeVars, countVars, sweepHist, driverVars>>

StopSession_Guard ==
    /\ pc = "stop_259"
    /\ pc' = IF session_active THEN "stop_263" ELSE stopRet
    /\ UNCHANGED <<exitVars, retVars, ids, scenVars, sessionVars, hostVars, connVars,
                   probeVars, countVars, sweepHist, driverVars>>

\* main.py:263  self.session_active = False
StopSession_SetInactive ==
    /\ pc = "stop_263"
    /\ session_active' = FALSE
    /\ pc' = "stop_266"
    /\ UNCHANGED <<exitVars, retVars, ids, scenVars, current_challenge, start_time,
                   cm_current_challenge, hostVars, connVars, probeVars,
                   countVars, sweepHist, driverVars>>

\* main.py:266, challenges.py:501-504  self.challenge_manager.cleanup()
\* calls the reaper
StopSession_Cleanup ==
    /\ pc = "stop_266"
    /\ CallCleanup("cleanup_505")
    /\ UNCHANGED <<exitVars, fcRet, envRet, stopRet, ids, scenVars, sessionVars,
                   hostVars, connVars, probeVars, launched, shutdownSwept,
                   cleanSinceLaunch, sweepHist, driverVars>>

\* challenges.py:505  self.current_challenge = None
ManagerCleanup_Clear ==
    /\ pc = "cleanup_505"
    /\ cm_current_challenge' = NoChallenge
    /\ pc' = "stop_268"
    /\ UNCHANGED <<exitVars, retVars, ids, scenVars, session_active, current_challenge,
                   start_time, hostVars, connVars, probeVars, countVars,
                   sweepHist, driverVars>>

\* main.py:268, 248  _format_elapsed_time: assert self.start_time is not None
StopSession_Elapsed ==
    /\ pc = "stop_268"
    /\ IF start_time
       THEN /\ pc' = "stop_272"
            /\ UNCHANGED raised
       ELSE /\ pc' = ExcTarget(stopRet)
            /\ raised' = TRUE
    /\ UNCHANGED <<exitVars, retVars, ids, scenVars, sessionVars, hostVars, connVars,
                   probeVars, countVars, sweepHist, snap, catalogVars>>

\* main.py:272  self.current_challenge = None
StopSession_ClearChallenge ==
    /\ pc = "stop_272"
    /\ current_challenge' = NoChallenge
    /\ pc' = "stop_273"
    /\ UNCHANGED <<exitVars, retVars, ids, scenVars, session_active, start_time,
                   cm_current_challenge, hostVars, connVars, probeVars,
                   countVars, sweepHist, driverVars>>

\* main.py:273  self.start_time = None, and stop_session returns
StopSession_ClearStartTime ==
    /\ pc = "stop_273"
    /\ start_time' = FALSE
    /\ pc' = stopRet
    /\ UNCHANGED <<exitVars, retVars, ids, scenVars, session_active, current_challenge,
                   cm_current_challenge, hostVars, connVars, probeVars,
                   countVars, sweepHist, driverVars>>

StopSession ==
    \/ StopSession_Guard \/ StopSession_SetInactive \/ StopSession_Cleanup
    \/ ManagerCleanup_Clear \/ StopSession_Elapsed \/ StopSession_ClearChallenge
    \/ StopSession_ClearStartTime

-----------------------------------------------------------------------------
(* The process: from the constructed InterviewCLI to the end of the process *)

\* main.py:499  cli = InterviewCLI(): the handlers and callbacks are
\* registered; the docker host may hold containers of earlier runs.
Init ==
    /\ Quiet
    /\ NoCatalog
    /\ descr = AnyDescr
    /\ SessionConstructed
    /\ inHandler = FALSE /\ shutdown = FALSE
    /\ pc = "run_316"
    /\ atexitLeft = AtExitCallbacks
    /\ scenario = NoScenario
    /\ containers \in SUBSET Orphans
    /\ composeUp = TRUE

Next ==
    \/ Run_SelectChallenge
    \/ StartSession_SetChallenge \/ StartSession_SetStartTime \/ StartSession_SetActive
    \/ StartSession_Manual
    \/ SetupChallenge_Cleanup \/ SetupChallenge_Namespace \/ SetupChallenge_Values
    \/ SetupChallenge_Helm \/ ApplyPatches_Step
    \/ SetupChallenge_ReturnTrue \/ SetupChallenge_ReturnFalse
    \/ StartSession_StartEnvironment \/ StartEnvironment_DockerRun
    \/ Connect_RetryHead \/ Connect_AfterRelaunch \/ Connect_Poll \/ Connect_ReturnTrue
    \/ Connect_CheckFailure \/ Connect_Sleep \/ Connect_AttemptEnd
    \/ StartSession_ConnectFailed \/ RunChallenge_Return
    \/ Monitor_Input \/ CheckHealth_Elapsed
    \/ CheckHealth_Service \/ CheckHealth_Popen \/ Tunnel_Exits \/ CheckHealth_Poll
    \/ CheckHealth_Get \/ CheckHealth_Terminate \/ CheckHealth_Wait
    \/ CheckHealth_Kill \/ CheckHealth_FinallyEnd \/ CheckHealth_Report
    \/ Main_HandleError
    \/ AtExit_CliCleanup \/ AtExit_ManagerCleanup \/ AtExit_Done
    \/ Signal \/ HandleExit_Check \/ HandleExit_Cleanup \/ HandleExit_SysExit
    \/ StopSession
    \/ Reaper

Spec == Init /\ [][Next]_vars

-----------------------------------------------------------------------------
(* The reaper called twice in succession, from any set of resources *)

InitReaper ==
    /\ Quiet
    /\ NoCatalog
    /\ descr = AnyDescr
    /\ SessionConstructed
    /\ inHandler = FALSE /\ shutdown = FALSE
    /\ pc = "drv_reap1"
    /\ atexitLeft = <<>>
    /\ scenario = NoScenario
    /\ containers \in SUBSET Containers
    /\ composeUp \in BOOLEAN

Driver_Reap1 ==
    /\ pc = "drv_reap1"
    /\ CallCleanup("drv_reap2")
    /\ UNCHANGED <<exitVars, fcRet, envRet, stopRet, ids, scenVars, sessionVars,
                   hostVars, connVars, probeVars, launched, shutdownSwept,
                   cleanSinceLaunch, sweepHist, driverVars>>

Driver_Reap2 ==
    /\ pc = "drv_reap2"
    /\ ~raised
    /\ snap' = Resources
    /\ CallCleanup("drv_done")
    /\ UNCHANGED <<exitVars, fcRet, envRet, stopRet, ids, scenVars, sessionVars,
                   hostVars, connVars, probeVars, launched, shutdownSwept,
                   cleanSinceLaunch, sweepHist, raised,
                   catalogVars>>

NextReaper == Driver_Reap1 \/ Driver_Reap2 \/ Reaper

SpecReaper == InitReaper /\ [][NextReaper]_vars

-----------------------------------------------------------------------------
(* stop_session called twice in succession, from any state of the session *)

\* what stop_session may change, and the reaper invocations so far
StopState ==
    [session_active |-> session_active, current_challenge |-> current_challenge,
     start_time |-> start_time, cm_current_challenge |-> cm_current_challenge,
     resources |-> Resources, reaps |-> shutdownReaps]

\* stop_session is called by _handle_exit (main.py:291) only.  The session
\* is active with a scenario and a start time (main.py:83-85), or inactive:
\* as constructed, as stop_session leaves it, or as start_session has set it
\* before main.py:85.
InitStop ==
    /\ Quiet
    /\ NoCatalog
    /\ descr = AnyDescr
    /\ inHandler = TRUE /\ shutdown = TRUE
    /\ pc = "drv_stop1"
    /\ atexitLeft = AtExitCallbacks
    /\ scenario = NoScenario
    /\ session_active \in BOOLEAN
    /\ current_challenge \in {NoChallenge, "database-typo"}
    /\ start_time \in BOOLEAN
    /\ start_time => current_challenge # NoChallenge
    /\ session_active => start_time
    /\ cm_current_challenge \in {NoChallenge, current_challenge}
    /\ containers \in SUBSET Containers
    /\ composeUp \in BOOLEAN

Driver_Stop1 ==
    /\ pc = "drv_stop1"
    /\ snap' = StopState
    /\ stopRet' = "drv_stop2"
    /\ pc' = "stop_259"
    /\ UNCHANGED <<exitVars, cleanupRet, fcRet, envRet, ids, scenVars, sessionVars,
                   hostVars, connVars, probeVars, countVars, sweepHist, raised,
                   catalogVars>>

Driver_Stop2 ==
    /\ pc = "drv_stop2"
    /\ ~raised
    /\ snap' = StopState
    /\ stopRet' = "drv_done"
    /\ pc' = "stop_259"
    /\ UNCHANGED <<exitVars, cleanupRet, fcRet, envRet, ids, scenVars, sessionVars,
                   hostVars, connVars, probeVars, countVars, sweepHist, raised,
                   catalogVars>>

NextStop == Driver_Stop1 \/ Driver_Stop2 \/ StopSession \/ Reaper

SpecStop == InitStop /\ [][NextStop]_vars

-----------------------------------------------------------------------------
(* setup_challenge called by start_session, for any scenario *)

\* kubectl_patches of at most MaxPatches entries
MaxPatches == 2
PatchLists == UNION {[1..n -> PatchKinds] : n \in 0..MaxPatches}

SetupCatalog ==
    [id : {"database-typo"}, manualOk : {TRUE}, helmValues : BOOLEAN,
     patches : PatchLists]

\* main.py:134  the call of setup_challenge: start_session has set the
\* session state (main.py:83-85)
InitSetup ==
    /\ Quiet
    /\ NoCatalog
    /\ descr = AnyDescr
    /\ inHandler = FALSE /\ shutdown = FALSE
    /\ pc = "setup_186"
    /\ atexitLeft = AtExitCallbacks
    /\ scenario \in SetupCatalog
    /\ session_active = TRUE
    /\ current_challenge = scenario.id
    /\ start_time = TRUE
    /\ cm_current_challenge = NoChallenge
    /\ containers \in SUBSET Orphans
    /\ composeUp \in BOOLEAN

NextSetup ==
    \/ SetupChallenge_Cleanup \/ SetupChallenge_Namespace \/ SetupChallenge_Values
    \/ SetupChallenge_Helm \/ ApplyPatches_Step
    \/ SetupChallenge_ReturnTrue \/ SetupChallenge_ReturnFalse
    \/ Reaper

SpecSetup == InitSetup /\ [][NextSetup]_vars

-----------------------------------------------------------------------------
(* start_session called on a session in any state, up to the reaper call of
   setup_challenge *)

StartCatalog ==
    [id : {"database-typo", "other-challenge"}, manualOk : BOOLEAN,
     helmValues : {TRUE}, patches : {<<"ok">>}]

\* The session is inactive, or active on database-typo with its release
\* deployed and its sandbox container running.
InitStart ==
    /\ Quiet
    /\ NoCatalog
    /\ descr = AnyDescr
    /\ inHandler = FALSE /\ shutdown = FALSE
    /\ pc = "drv_start"
    /\ atexitLeft = AtExitCallbacks
    /\ scenario = NoScenario
    /\ session_active \in BOOLEAN
    /\ current_challenge \in {NoChallenge, "database-typo"}
    /\ start_time \in BOOLEAN
    /\ start_time => current_challenge # NoChallenge
    /\ session_active => start_time
    /\ cm_current_challenge = current_challenge
    /\ containers \in SUBSET Containers
    /\ session_active => Own \in containers
    /\ composeUp \in BOOLEAN

\* main.py:81  start_session(challenge)
Driver_Start ==
    /\ pc = "drv_start"
    /\ \E c \in StartCatalog : scenario' = c
    /\ snap' = StopState
    /\ pc' = "start_83"
    /\ UNCHANGED <<exitVars, retVars, ids, prov, sessionVars, hostVars, connVars,
                   probeVars, countVars, sweepHist, raised,
                   catalogVars>>

NextStart ==
    \/ Driver_Start
    \/ StartSession_SetChallenge \/ StartSession_SetStartTime \/ StartSession_SetActive
    \/ StartSession_Manual
    \/ SetupChallenge_Cleanup
    \/ Reaper

SpecStart == InitStart /\ [][NextStart]_vars

-----------------------------------------------------------------------------
(* start_candidate_environment and _setup_candidate_connection with the files
   of /tmp/tmate-info followed: they keep what was written last, by the
   sandbox of this launch, of an earlier launch or of an earlier run *)

\* what a sandbox may have left in /tmp/tmate-info before the first launch
LeftDescrs ==
    [status : Statuses, ssh : SshContents, web : SshContents, by : {0}]

\* The sandbox of the latest launch writes its status file; with "ready" it
\* writes the ssh endpoint, and the web endpoint when it has one.
Sandbox_Write ==
    /\ Own \in containers /\ launches > 0
    /\ pc \notin {"monitor_215", "start_141", "main_509"}
    /\ \E st \in Statuses \ {"none"}, web \in SshContents :
         descr' = IF st = "ready"
                  THEN [status |-> st, ssh |-> "url", web |-> web, by |-> launches]
                  ELSE [descr EXCEPT !.status = st, !.by = launches]
    /\ descr' # descr
    /\ UNCHANGED <<pc, exitVars, retVars, ids, scenVars, sessionVars, containers,
                   composeUp, release, connVars, probeVars, countVars, sweepHist,
                   driverVars>>

\* main.py:138  start_session is about to launch the sandbox
InitDescr ==
    /\ Quiet
    /\ NoCatalog
    /\ descr \in LeftDescrs
    /\ inHandler = FALSE /\ shutdown = FALSE
    /\ pc = "start_138"
    /\ atexitLeft = AtExitCallbacks
    /\ scenario \in Catalog
    /\ session_active = TRUE
    /\ current_challenge = scenario.id
    /\ start_time = TRUE
    /\ cm_current_challenge = scenario.id
    /\ containers \in SUBSET Orphans
    /\ composeUp \in BOOLEAN

NextDescr ==
    \/ StartSession_StartEnvironment \/ StartEnvironment_DockerRun
    \/ Reaper
    \/ Connect_RetryHead \/ Connect_AfterRelaunch \/ Connect_Poll \/ Connect_ReturnTrue
    \/ Connect_CheckFailure \/ Connect_Sleep \/ Connect_AttemptEnd
    \/ Sandbox_Write

SpecDescr == InitDescr /\ [][NextDescr]_vars

-----------------------------------------------------------------------------
(* ChallengeManager.discover_challenges and _parse_challenge_file *)

\* *.yaml files in the challenges directory; their names are 1..n in sorted
\* order
MaxFiles == 2

\* challenges.py:160
required_fields == {"name", "description", "helm_values", "kubectl_patches", "estimates"}

\* What a file is to _parse_challenge_file: unreadable (OSError), not utf-8
\* (UnicodeDecodeError), not YAML (YAMLError), YAML that is no mapping, or a
\* mapping with some keys.
FieldSets ==
    {required_fields, required_fields \cup {"extra"}, {}}
        \cup {required_fields \ {f} : f \in required_fields}
FileContents ==
    {[kind |-> k, fields |-> {}] : k \in {"oserror", "decode", "yamlerror", "scalar"}}
        \cup {[kind |-> "dict", fields |-> F] : F \in FieldSets}

Dirs ==
    {NoDir} \cup {[exists |-> TRUE, files |-> f] :
                     f \in UNION {[1..n -> FileContents] : n \in 0..MaxFiles}}

\* the orders in which glob may yield n files
Globs(n) == {g \in [1..n -> 1..n] : \A i, j \in 1..n : i # j => g[i] # g[j]}

\* a parse that asks for any four of the required keys
ParseChallengeFileLoose(c) ==
    CASE c.kind = "decode" -> "raise"
      [] c.kind = "dict" /\ Cardinality(required_fields \ c.fields) <= 1 -> "Challenge"
      [] OTHER -> "None"

\* challenges.py:148-172  _parse_challenge_file: None on YAMLError and
\* OSError, on a value that is no mapping and on a missing key; another
\* exception of read_text leaves the function; else a Challenge
ParseChallengeFile(c) ==
    CASE c.kind = "decode" -> "raise"
      [] c.kind = "dict" /\ required_fields \subseteq c.fields -> "Challenge"
      [] OTHER -> "None"

\* challenges.py:133-138  self.challenges = []; return without the
\* directory; sorted(glob("*.yaml"))
Discover_Start ==
    /\ pc = "discover_133"
    /\ challenges' = <<>>
    /\ IF ~dir.exists
       THEN /\ pc' = "discover_done"
            /\ UNCHANGED yaml_files
       ELSE /\ \E g \in Globs(Len(dir.files)) :
                 yaml_files' = SortSeq(g, LAMBDA a, b : a < b)
            /\ pc' = "discover_140"
    /\ UNCHANGED <<exitVars, retVars, ids, scenVars, sessionVars, hostVars, connVars,
                   probeVars, countVars, sweepHist, raised, snap, dir>>

\* challenges.py:140-146  one file: append the Challenge when there is
\* one; except Exception: pass
Discover_File ==
    /\ pc = "discover_140"
    /\ IF yaml_files = <<>>
       THEN /\ pc' = "discover_done"
            /\ UNCHANGED <<yaml_files, challenges>>
       ELSE /\ challenges' =
                 IF ParseChallengeFile(dir.files[Head(yaml_files)]) = "Challenge"
                 THEN Append(challenges, Head(yaml_files)) ELSE challenges
            /\ yaml_files' = Tail(yaml_files)
            /\ UNCHANGED pc
    /\ UNCHANGED <<exitVars, retVars, ids, scenVars, sessionVars, hostVars, connVars,
                   probeVars, countVars, sweepHist, raised, snap, dir>>

\* main.py:309  run calls discover_challenges on a manager that holds an
\* earlier catalog or none
InitDiscover ==
    /\ Quiet
    /\ descr = AnyDescr
    /\ inHandler = FALSE /\ shutdown = FALSE
    /\ pc = "discover_133"
    /\ atexitLeft = AtExitCallbacks
    /\ scenario = NoScenario
    /\ SessionConstructed
    /\ containers = {} /\ composeUp = FALSE
    /\ dir \in Dirs
    /\ yaml_files = <<>>
    /\ challenges \in {<<>>, <<1>>}

NextDiscover == Discover_Start \/ Discover_File

SpecDiscover == InitDiscover /\ [][NextDiscover]_vars

-----------------------------------------------------------------------------
(* The process beside another instance of the tool whose sandbox is running *)

InitPeers ==
    /\ Quiet
    /\ NoCatalog
    /\ descr = AnyDescr
    /\ SessionConstructed
    /\ inHandler = FALSE /\ shutdown = FALSE
    /\ pc = "run_316"
    /\ atexitLeft = AtExitCallbacks
    /\ scenario = NoScenario
    /\ containers = {Peer}
    /\ composeUp = TRUE

SpecPeers == InitPeers /\ [][Next]_vars

-----------------------------------------------------------------------------
(* Properties of setup_challenge *)

IsPrefix(a, b) == Len(a) <= Len(b) /\ \A i \in 1..Len(a) : a[i] = b[i]

\* the steps of setup_challenge in the order of the source; git clone runs
\* only when the charts are not there yet
StepOrder == <<"reap", "settle", "namespace", "clone", "values", "repos", "install">>
StepOrderCloned == SelectSeq(StepOrder, LAMBDA x : x # "clone")

\* the install command has run and exited with 0
Installed == "install" \in Range(prov.log) /\ "install" \notin prov.failed

\* setup_challenge has returned to start_session
SetupReturned == pc = "start_138"

\* C11: the steps of setup_challenge begin in the order reap, settle,
\* namespace, (clone,) values file, repositories, install; a patch is
\* attempted only after every one of them and after an install that
\* succeeded, and none is attempted when the install failed.
C11_StepsInOrder ==
    /\ IsPrefix(prov.log, StepOrder) \/ IsPrefix(prov.log, StepOrderCloned)
    /\ pc = "patch_266" \/ prov.patched # <<>> =>
           /\ prov.log \in {StepOrder, StepOrderCloned}
           /\ Installed
    /\ "install" \in prov.failed => prov.patched = <<>> /\ pc # "patch_266"

\* setup_challenge has returned True after the clone and two patches
C11_Witness ==
    /\ SetupReturned /\ prov.result = "true"
    /\ prov.log = StepOrder
    /\ prov.patched = <<1, 2>>

\* positions of the well formed entries of a patch list, in order
WellFormed(ps) ==
    SelectSeq([i \in 1..Len(ps) |-> i], LAMBDA i : ps[i] = "ok")

\* C12, as stated: after an install that succeeded, kubectl patch has been
\* run once on every well formed entry, in the order of the list, and no
\* failure left _apply_kubectl_patches (setup_challenge returned True).
C12_AsStated ==
    SetupReturned /\ Installed =>
        /\ prov.patched = WellFormed(scenario.patches)
        /\ prov.result = "true"

\* C13, as stated: setup_challenge returns a boolean, True exactly when no
\* step failed.
C13_AsStated ==
    SetupReturned =>
        /\ prov.result \in {"true", "false"}
        /\ prov.result = "true" <=> prov.failed = {}

\* C20: the values file is the dump of helm_values when they are not empty
\* and the copy of the chart's values.yaml otherwise; a scenario with empty
\* helm_values and no patch, once the install succeeds, has the default
\* values, no patch attempted, and True returned.
C20_ConfigMaterialized ==
    /\ "values" \in Range(prov.log) \ prov.failed =>
           prov.values = IF scenario.helmValues THEN "custom" ELSE "default"
    /\ SetupReturned /\ Installed /\ ~scenario.helmValues /\ scenario.patches = <<>> =>
           /\ prov.values = "default"
           /\ prov.patched = <<>>
           /\ prov.result = "true"

\* setup_challenge has returned for a scenario with empty helm_values and no
\* patch, after an install that succeeded
C20_Witness ==
    /\ SetupReturned /\ Installed
    /\ ~scenario.helmValues /\ scenario.patches = <<>>
    /\ prov.values = "default" /\ prov.result = "true"

-----------------------------------------------------------------------------
(* Properties of check_health *)

\* C1: when check_health returns after it has started the port-forward
\* process, that process has ended: terminated, killed, or gone by itself,
\* whatever the result (healthy, a classified failure, Port-forward failed,
\* an exception of the request).
C1_TunnelReleased ==
    pc = "health_return" /\ tunnel # "none" => tunnel \in {"dead", "exited"}

\* check_health returns what the except clause made of an exception of the
\* request, with a tunnel that had to be killed or terminated
C1_Witness ==
    /\ pc = "health_return"
    /\ result.text = "Cannot connect to service"
    /\ tunnel = "dead"

-----------------------------------------------------------------------------
(* Properties of the process *)

\* C2: when the process is gone after it has launched a sandbox container,
\* the sweep of the reaper has run to its end after the last launch, and if
\* the commands of one such sweep all succeeded the container of this
\* process does not exist.
C2_ReapedAtExit ==
    pc = "exited" /\ launched =>
        /\ cleanSinceLaunch # "no"
        /\ cleanSinceLaunch = "clean" => Own \notin containers

\* the process is gone after a launch and a signal, its container removed
C2_Witness ==
    /\ pc = "exited" /\ launched /\ signals > 0
    /\ cleanSinceLaunch = "clean"
    /\ Own \notin containers

\* C3: one start_session makes at most (max_retries + 1) * 10 = 30 calls of
\* get_tmate_info and at most max_retries + 1 = 3 launches of the sandbox.
C3_Budget ==
    /\ polls <= (max_retries + 1) * PollBudget
    /\ launches <= max_retries + 1

\* _setup_candidate_connection returns False after 30 polls and 3 launches
C3_Witness == pc = "start_141" /\ polls = 30 /\ launches = 3

\* positions of the poll loop of one attempt
PollLoop == {"connect_163", "connect_182", "connect_185", "connect_191",
             "connect_193"}

\* C4: an attempt ends on status failed or timeout or after its 10 polls, and
\* both ends lead to the same decision; every attempt polls a sandbox
\* launched for it while retries remain; False is returned only after the
\* third attempt has ended.
C4_Establisher ==
    /\ pc = "connect_193" =>
           (attempt = PollBudget \/ brokeOn \in {"failed", "timeout"})
    /\ pc \in PollLoop => retry <= max_retries /\ launches = retry + 1
    /\ pc = "start_141" => retry = max_retries + 1 /\ launches = max_retries + 1

\* False is returned after one attempt used its 10 polls and two ended on
\* a failure status at their first poll
C4_Witness == pc = "start_141" /\ polls = PollBudget + 2

\* positions of start_session before _setup_candidate_connection has
\* returned: the manual, setup_challenge, the launch, the poll loop
Provisioning ==
    {"start_120", "setup_186", "setup_196", "setup_208", "setup_217",
     "patch_266", "setup_261", "start_138", "env_461"}
Establishing == PollLoop \cup {"connect_154", "connect_158"}

\* C5, as stated: session_active is not set while provisioning or
\* establishing is in progress.
C5_AsStated == pc \in Provisioning \cup Establishing => ~session_active

\* C6, as stated: when start_session is about to return False because the
\* connection was not established, the reaper has run since the last launch,
\* session_active is false and no scenario is current.
C6_AsStated ==
    pc = "run_439" =>
        /\ cleanSinceLaunch # "no"
        /\ ~session_active
        /\ current_challenge = NoChallenge

\* C8, as stated: when the process is gone, _cleanup has been invoked at
\* most once since the shutdown began, and the sweep of the sandbox
\* containers has run.
C8_AsStated == pc = "exited" => shutdownReaps <= 1 /\ shutdownSwept

-----------------------------------------------------------------------------
(* Properties of stop_session *)

StopReturned == pc \in {"drv_stop2", "drv_done"}

\* C7: stop_session raises nothing; a call when the session is not active
\* changes no state and invokes no reaper; a call when it is active invokes
\* the reaper once and leaves session_active false, current_challenge and
\* start_time cleared; the second of two calls is made when not active.
C7_StopIdempotent ==
    /\ ~raised
    /\ StopReturned /\ ~snap.session_active => StopState = snap
    /\ StopReturned /\ snap.session_active =>
           /\ shutdownReaps = snap.reaps + 1
           /\ ~session_active
           /\ current_challenge = NoChallenge
           /\ start_time = FALSE
    /\ pc = "drv_done" => ~snap.session_active

\* the second call has returned, after a first call on an active session
C7_Witness ==
    /\ pc = "drv_done"
    /\ shutdownReaps = 1
    /\ ~session_active /\ current_challenge = NoChallenge /\ ~start_time

-----------------------------------------------------------------------------
(* Properties of the reaper *)

-----------------------------------------------------------------------------
(* Properties of check_health and of the monitoring loop *)

ProbeLabels == {"health_227", "health_308", "health_321", "health_332", "health_337",
                "health_355", "health_356", "health_359", "health_362",
                "health_return"}

\* C15: the value check_health returns for a response is fixed by the status
\* code alone: 200 gives (True, "Healthy", 200), 404, 500 and 503 give False
\* with their own messages, every other code c gives (False, "HTTP c", c).
C15_Classification ==
    probe.status # 0 /\ result.kind = "return" =>
        /\ result.code = probe.status
        /\ result.healthy <=> probe.status = 200
        /\ probe.status = 200 => result.text = "Healthy"
        /\ probe.status = 404 => result.text = "Endpoint not found"
        /\ probe.status = 500 => result.text = "Server error"
        /\ probe.status = 503 => result.text = "Service unavailable"
        /\ probe.status \notin {200, 404, 500, 503} =>
               result.text = "HTTP" /\ result.arg = probe.status

C15_Witness ==
    /\ pc = "health_return"
    /\ probe.status = 302
    /\ result = Return(FALSE, "HTTP", 302, 302)

\* C16: when the service lookup fails, check_health returns exactly
\* (False, "Service not deployed", None) and neither starts a port-forward
\* nor sends a request.
C16_ServiceMissing ==
    probe.svc > 0 =>
        /\ ~probe.popen /\ ~probe.get
        /\ tunnel = "none"
        /\ pc = "health_return"
        /\ result = Return(FALSE, "Service not deployed", 0, 0)

C16_Witness ==
    /\ pc = "health_return"
    /\ probe.svc > 0
    /\ result = Return(FALSE, "Service not deployed", 0, 0)

\* C17: a health check leaves the session as it was: no step of it changes
\* session_active, current_challenge or start_time, and when it has returned
\* the session is still active.
C17_ProbeKeepsSession ==
    /\ [][(pc \in ProbeLabels) =>
              UNCHANGED <<session_active, current_challenge, start_time>>]_vars
    /\ [](pc = "health_return" => session_active /\ current_challenge # NoChallenge)

C17_Witness ==
    /\ pc = "health_return"
    /\ result.healthy
    /\ session_active

\* C18 as stated: only an empty line of input starts a health check.
C18_AsStated ==
    pc \in ProbeLabels /\ ~exiting => probe.line = ""

\* C18: a line that is empty once stripped of white space starts exactly one
\* call of check_health; any other line starts none and the loop goes on
\* waiting.
C18_OnePerTrigger ==
    /\ probe.calls <= 1
    /\ pc \in ProbeLabels /\ ~exiting => probe.line \in {"", " "}
    /\ pc \in ProbeLabels \ {"health_227", "health_308"} /\ ~exiting => probe.calls = 1
    /\ probe.calls = 1 => probe.line \in {"", " "}
    /\ pc = "monitor_215" => probe.line \notin {"", " "} /\ probe.calls = 0

C18_Witness ==
    /\ pc = "health_return"
    /\ probe.line = " "
    /\ probe.calls = 1


-----------------------------------------------------------------------------
(* Properties of the first attempt of _setup_candidate_connection *)

\* C19: when every read of the status file in the first attempt gave
\* "pending" and poll k (k <= 10) finds it ready with an ssh endpoint,
\* _setup_candidate_connection returns True at that poll: it is the k-th
\* call of get_tmate_info, the sandbox was launched once, no attempt was
\* broken off, and the endpoints shown are those read at that poll; a poll
\* that finds ready with an endpoint is never followed by another one.
C19_ReadyAtPoll ==
    /\ pc = "connect_182" => info.ret[1] /\ info.ret[2] = "url"
    /\ pc = "connect_185" => ~(info.ret[1] /\ info.ret[2] = "url")
    /\ info.pendingSoFar => retry = 0 /\ launches = 1 /\ brokeOn = "none"
    /\ info.pendingSoFar /\ pc \in {"connect_182", "connect_185", "connect_191"} =>
           polls = attempt + 1 /\ polls <= PollBudget
    /\ info.pendingSoFar /\ pc = "connect_193" => attempt = PollBudget

\* ready with both endpoints at the third poll, after two polls on pending
C19_Witness ==
    /\ pc = "connect_182"
    /\ info.ret = <<TRUE, "url", "url">> /\ info.pendingSoFar
    /\ polls = 3 /\ launches = 1


-----------------------------------------------------------------------------
(* Properties of the descriptor files across launches *)

\* C21, as stated: after a relaunch, an attempt is declared ready, or ended
\* on failed or timeout, only on a status that the sandbox of the current
\* launch wrote.
C21_AsStated ==
    /\ pc = "connect_182" /\ retry > 0 => info.by = launches
    /\ pc = "connect_193" /\ retry > 0 /\ brokeOn # "none" => info.by = launches


-----------------------------------------------------------------------------
(* Properties of discover_challenges *)

\* C22: discover_challenges never raises, and the catalog it leaves holds
\* exactly the files that parse to a mapping with all five required keys, in
\* the sorted order of their names.
C22_Catalog ==
    /\ ~raised
    /\ pc = "discover_done" =>
        /\ \A i, j \in DOMAIN challenges : i < j => challenges[i] < challenges[j]
        /\ Range(challenges) =
               {n \in DOMAIN dir.files :
                    /\ dir.files[n].kind = "dict"
                    /\ {"name", "description", "helm_values", "kubectl_patches",
                        "estimates"} \subseteq dir.files[n].fields}

\* a complete file is kept and one without estimates is left out
C22_Witness ==
    /\ pc = "discover_done"
    /\ challenges = <<1>>
    /\ Len(dir.files) = 2
    /\ dir.files[2] = [kind |-> "dict", fields |-> required_fields \ {"estimates"}]


-----------------------------------------------------------------------------
(* Properties of start_session *)

\* C23, as stated: when the manual of the scenario is missing, start_session
\* ends with an error before the reaper, a provisioning command or a launch
\* of the sandbox has run, and the session is not active.
C23_AsStated ==
    pc = "main_509" /\ scenario # NoScenario /\ ~scenario.manualOk =>
        /\ prov = NoProv /\ launches = 0 /\ ~launched
        /\ ~session_active


\* C24: docker run of the sandbox is reached only from the end of a reaper
\* run that start_candidate_environment called (the settle wait follows it),
\* at the first launch and at each retry; a launch succeeds only when no
\* container of this process's name exists, and then there is one.
C24_LaunchAfterReap ==
    [][/\ pc' = "env_461" /\ pc # "env_461" =>
              pc \in {"force_120", "force_124"} /\ cleanupRet = "env_461"
       /\ launches' # launches /\ launches' # 0 =>
              /\ pc = "env_461" /\ launches' = launches + 1
              /\ Own \notin containers /\ Own \in containers']_vars

\* the sandbox was launched a second time, for a retry
C24_Witness == pc = "connect_158" /\ launches = 2 /\ Own \in containers


-----------------------------------------------------------------------------
(* Properties of check_health under signals *)

\* C25, as stated: when the process has exited after a signal, no
\* port-forward process that check_health started is still running: each
\* was terminated or killed, or had ended by itself.
C25_AsStated ==
    pc = "exited" /\ signals > 0 => tunnel # "running"


-----------------------------------------------------------------------------
(* Properties of _format_elapsed_time *)

\* C26: start_time is set whenever _format_elapsed_time is called, from
\* _check_health or from stop_session, with or without a signal handler
\* under it; and start_time is set whenever session_active is.
C26_StartTimeSet ==
    /\ session_active => start_time
    /\ pc \in {"health_227", "stop_268"} => start_time

\* stop_session, called by the signal handler, is about to format the
\* elapsed time
C26_Witness == pc = "stop_268" /\ inHandler /\ start_time /\ ~session_active


-----------------------------------------------------------------------------
(* Properties of start_session after setup_challenge *)

\* positions inside _cleanup and _force_cleanup_containers
ReaperLabels == {"cleanup_112", "force_120", "force_124"}

\* C27, as stated: after setup_challenge has returned True and until
\* monitoring begins the reaper does not run, and monitoring begins with the
\* release and the compose project it runs on in place.
C27_AsStated ==
    prov.result = "true" /\ ~shutdown =>
        /\ pc \notin ReaperLabels
        /\ pc = "monitor_215" => release /\ composeUp


\* C28, as stated: when setup_challenge has returned False, start_session
\* launches no sandbox and the session does not enter health monitoring.
C28_AsStated ==
    prov.result = "false" =>
        /\ launches = 0
        /\ pc \notin {"env_461", "monitor_215"} \cup ProbeLabels


-----------------------------------------------------------------------------
(* Properties of two instances on one docker host *)

\* C29, as stated: the sandbox of the other instance has another name than
\* the one of this process, and nothing this process does (provisioning,
\* launch, retry, stop, exit cleanup) removes it.
C29_AsStated == Own # Peer /\ Peer \in containers

====
